---- MODULE Spec2Model ----
(***************************************************************************)
(* Model of the vend-hub product matcher (prototype/src/matcher.ts) and    *)
(* of its command line driver (prototype/src/index.ts).                    *)
(*                                                                         *)
(* Strings are sequences of one-character strings.  JavaScript numbers     *)
(* are exact rationals <<n, d>> in lowest terms with d > 0, so that        *)
(* division, comparison and rounding are computed, not assumed.            *)
(***************************************************************************)
EXTENDS Integers, Sequences, FiniteSets, TLC

VARIABLES
    pc,            \* position of main(): "validate", "loop", "collect", "output", "done", "failed"
    productsA,     \* NormalizedProduct[] of source A
    productsB,     \* NormalizedProduct[] of source B
    options,       \* Partial<MatchOptions> handed to matchProducts
    output,        \* the --output mode main() wrote the result in, Absent before
    idxA,          \* number of entities of productsA already processed
    matches,       \* MatchRecord[]
    unmatchedA,    \* indexes into productsA of the summaries pushed to unmatchedA
    matchedBIds,   \* Set<string> of claimed sourceIds
    unmatchedB,    \* indexes into productsB of the summaries in unmatchedB
    scored,        \* number of pairs handed to computeFeatureScores so far
    stdout,        \* what main() wrote on standard output
    stderr,        \* what the catch block wrote on standard error
    exitCode,      \* process.exitCode
    npc,           \* position of the normalisation run: "idle", "raw", "once", "twice"
    normInput,     \* the string handed to normalizeName
    normOnce,      \* normalizeName(normInput)
    normTwice,     \* normalizeName(normalizeName(normInput))
    spc,           \* position of the scoring of one pair: "idle", "drawn", "scored", "matched"
    entityA,       \* the NormalizedProduct of source A of the pair
    entityB,       \* the NormalizedProduct of source B of the pair
    curScores,     \* computeFeatureScores(entityA, entityB)
    curConfidence, \* computeConfidence(curScores, entityA, entityB)
    curResult      \* matchProducts([entityA], [entityB]) with the default options

vars == <<pc, productsA, productsB, options, output, idxA, matches, unmatchedA,
          matchedBIds, unmatchedB, scored, stdout, stderr, exitCode,
          npc, normInput, normOnce, normTwice,
          spc, entityA, entityB, curScores, curConfidence, curResult>>

matcherVars == <<pc, productsA, productsB, options, output, idxA, matches, unmatchedA,
                 matchedBIds, unmatchedB, scored, stdout, stderr, exitCode>>

normVars == <<npc, normInput, normOnce, normTwice>>

scoreVars == <<spc, entityA, entityB, curScores, curConfidence, curResult>>

(***************************************************************************)
(* Bounds of the model.                                                    *)
(***************************************************************************)
MaxA == 2
MaxB == 2
MaxNameLen == 5

\* the value of an optional field that is absent (undefined)
Absent == <<>>

(***************************************************************************)
(* Exact arithmetic on JavaScript numbers.                                 *)
(***************************************************************************)
Abs(n) == IF n < 0 THEN -n ELSE n

RECURSIVE Gcd(_, _)
Gcd(a, b) == IF b = 0 THEN a ELSE Gcd(b, a % b)

\* the rational n/d in lowest terms, d # 0
R(n, d) ==
    LET g == Gcd(Abs(n), Abs(d))
        s == IF d < 0 THEN -1 ELSE 1
    IN  <<(s * n) \div g, (s * d) \div g>>

Zero == R(0, 1)
One == R(1, 1)
Num(n) == R(n, 1)
Add(x, y) == R(x[1] * y[2] + y[1] * x[2], x[2] * y[2])
Sub(x, y) == R(x[1] * y[2] - y[1] * x[2], x[2] * y[2])
Mul(x, y) == R(x[1] * y[1], x[2] * y[2])
Div(x, y) == R(x[1] * y[2], x[2] * y[1])
Lt(x, y) == x[1] * y[2] < y[1] * x[2]
Le(x, y) == x[1] * y[2] <= y[1] * x[2]
Gt(x, y) == Lt(y, x)
Ge(x, y) == Le(y, x)
MathAbs(x) == R(Abs(x[1]), x[2])
MathMax(x, y) == IF Lt(x, y) THEN y ELSE x
MathMin(x, y) == IF Lt(y, x) THEN y ELSE x

\* Math.round: the nearest integer, halves towards +Infinity
MathRound(x) == (2 * x[1] + x[2]) \div (2 * x[2])

clamp(value, min, max) == MathMin(max, MathMax(min, value))

round(value) == R(MathRound(Mul(value, Num(100))), 100)

(***************************************************************************)
(* Characters and strings.                                                 *)
(***************************************************************************)
UpperCase == <<"A","B","C","D","E","F","G","H","I","J","K","L","M",
               "N","O","P","Q","R","S","T","U","V","W","X","Y","Z">>
LowerCase == <<"a","b","c","d","e","f","g","h","i","j","k","l","m",
               "n","o","p","q","r","s","t","u","v","w","x","y","z">>
Digits == {"0","1","2","3","4","5","6","7","8","9"}
WhiteSpace == {" ", "\t"}

Range(s) == {s[i] : i \in 1..Len(s)}

toLowerCaseChar(c) ==
    IF \E i \in 1..26 : UpperCase[i] = c
    THEN LowerCase[CHOOSE i \in 1..26 : UpperCase[i] = c]
    ELSE c

toLowerCase(s) == [i \in 1..Len(s) |-> toLowerCaseChar(s[i])]

\* s starts with p at position i
StartsAt(s, p, i) ==
    /\ i + Len(p) - 1 <= Len(s)
    /\ \A k \in 1..Len(p) : s[i + k - 1] = p[k]

\* the first position >= i of s that is not white space (\s* is greedy)
RECURSIVE SkipSpace(_, _)
SkipSpace(s, i) ==
    IF i <= Len(s) /\ s[i] \in WhiteSpace THEN SkipSpace(s, i + 1) ELSE i

OZ == <<"o", "z">>

\* the position after a match of /fl\.?\s*oz/ at i, or 0 when there is none
MatchFlOz(s, i) ==
    IF ~StartsAt(s, <<"f", "l">>, i) THEN 0
    ELSE LET afterDot == IF i + 2 <= Len(s) /\ s[i + 2] = "." THEN i + 3 ELSE i + 2
             withDot == SkipSpace(s, afterDot)
             noDot == SkipSpace(s, i + 2)
         IN  IF StartsAt(s, OZ, withDot) THEN withDot + 2
             ELSE IF StartsAt(s, OZ, noDot) THEN noDot + 2
             ELSE 0

\* the position after a match of /ounces?/ at i, or 0
MatchOunce(s, i) ==
    IF ~StartsAt(s, <<"o", "u", "n", "c", "e">>, i) THEN 0
    ELSE IF i + 5 <= Len(s) /\ s[i + 5] = "s" THEN i + 6 ELSE i + 5

\* the position after a match of /oz\./ at i, or 0
MatchOzDot(s, i) == IF StartsAt(s, <<"o", "z", ".">>, i) THEN i + 3 ELSE 0

\* String.prototype.replace(/.../g, "oz") for the three unit patterns:
\* leftmost matches, scanned left to right, never overlapping
RECURSIVE ReplaceFlOz(_, _)
ReplaceFlOz(s, i) ==
    IF i > Len(s) THEN <<>>
    ELSE IF MatchFlOz(s, i) # 0 THEN OZ \o ReplaceFlOz(s, MatchFlOz(s, i))
    ELSE <<s[i]>> \o ReplaceFlOz(s, i + 1)

RECURSIVE ReplaceOunce(_, _)
ReplaceOunce(s, i) ==
    IF i > Len(s) THEN <<>>
    ELSE IF MatchOunce(s, i) # 0 THEN OZ \o ReplaceOunce(s, MatchOunce(s, i))
    ELSE <<s[i]>> \o ReplaceOunce(s, i + 1)

RECURSIVE ReplaceOzDot(_, _)
ReplaceOzDot(s, i) ==
    IF i > Len(s) THEN <<>>
    ELSE IF MatchOzDot(s, i) # 0 THEN OZ \o ReplaceOzDot(s, MatchOzDot(s, i))
    ELSE <<s[i]>> \o ReplaceOzDot(s, i + 1)

\* /-/g and /[^a-z0-9\s]/g, both replaced by one space
IsPlain(c) == c \in Range(LowerCase) \/ c \in Digits \/ c \in WhiteSpace

ReplacePunctuation(s) ==
    [i \in 1..Len(s) |-> IF s[i] = "-" \/ ~IsPlain(s[i]) THEN " " ELSE s[i]]

\* /\s+/g replaced by one space
RECURSIVE CollapseSpace(_, _)
CollapseSpace(s, i) ==
    IF i > Len(s) THEN <<>>
    ELSE IF s[i] \in WhiteSpace THEN <<" ">> \o CollapseSpace(s, SkipSpace(s, i))
    ELSE <<s[i]>> \o CollapseSpace(s, i + 1)

\* String.prototype.trim
RECURSIVE TrimLeft(_)
TrimLeft(s) == IF s # <<>> /\ Head(s) \in WhiteSpace THEN TrimLeft(Tail(s)) ELSE s

RECURSIVE TrimRight(_)
TrimRight(s) ==
    IF s # <<>> /\ s[Len(s)] \in WhiteSpace
    THEN TrimRight(SubSeq(s, 1, Len(s) - 1)) ELSE s

trim(s) == TrimLeft(TrimRight(s))

normalizeName(value) ==
    trim(CollapseSpace(ReplacePunctuation(
        ReplaceOzDot(ReplaceOunce(ReplaceFlOz(toLowerCase(value), 1), 1), 1)), 1))

(***************************************************************************)
(* Optional fields: Absent is undefined, Some(v) a present value.          *)
(***************************************************************************)
Some(v) == <<v>>
Get(opt) == opt[1]

\* JavaScript truthiness of an optional string and of an optional number
TruthyStr(opt) == opt # Absent /\ Get(opt) # <<>>
TruthyNum(opt) == opt # Absent /\ Get(opt)[1] # 0

\* String.prototype.includes
Includes(s, p) == \E i \in 1..(Len(s) + 1) : StartsAt(s, p, i)

(***************************************************************************)
(* Tables of matcher.ts.                                                   *)
(***************************************************************************)
\* <<key, canonical spelling>>, in the order of the source
BRAND_SYNONYMS == <<
    <<<<"c","o","k","e">>,
      <<"c","o","c","a"," ","c","o","l","a">>>>,
    <<<<"c","o","c","a","-","c","o","l","a">>,
      <<"c","o","c","a"," ","c","o","l","a">>>>,
    <<<<"c","o","c","a">>,
      <<"c","o","c","a"," ","c","o","l","a">>>>,
    <<<<"c","o","c","a"," ","c","o","l","a">>,
      <<"c","o","c","a"," ","c","o","l","a">>>>,
    <<<<"d","i","e","t"," ","c","o","k","e">>,
      <<"d","i","e","t"," ","c","o","c","a"," ","c","o","l","a">>>>,
    <<<<"c","o","c","a","-","c","o","l","a"," ","d","i","e","t">>,
      <<"d","i","e","t"," ","c","o","c","a"," ","c","o","l","a">>>>,
    <<<<"d","i","e","t"," ","c","o","c","a"," ","c","o","l","a">>,
      <<"d","i","e","t"," ","c","o","c","a"," ","c","o","l","a">>>>,
    <<<<"c","o","c","a"," ","c","o","l","a"," ","d","i","e","t">>,
      <<"d","i","e","t"," ","c","o","c","a"," ","c","o","l","a">>>>,
    <<<<"p","e","p","s","i"," ","c","o","l","a">>,
      <<"p","e","p","s","i">>>>,
    <<<<"p","e","p","s","i","-","c","o","l","a">>,
      <<"p","e","p","s","i">>>>,
    <<<<"r","e","d","b","u","l","l">>,
      <<"r","e","d"," ","b","u","l","l">>>>,
    <<<<"r","e","d","b","u","l","l"," ","e","n","e","r","g","y">>,
      <<"r","e","d"," ","b","u","l","l">>>>,
    <<<<"r","e","d","b","u","l","l"," ","e","n","e","r","g","y"," ","d","r","i","n","k">>,
      <<"r","e","d"," ","b","u","l","l">>>>,
    <<<<"r","e","d"," ","b","u","l","l">>,
      <<"r","e","d"," ","b","u","l","l">>>>,
    <<<<"s","n","i","c","k","e","r","s">>,
      <<"s","n","i","c","k","e","r","s">>>>,
    <<<<"l","a","y","s">>,
      <<"l","a","y","s">>>>,
    <<<<"d","o","r","i","t","o","s">>,
      <<"d","o","r","i","t","o","s">>>>,
    <<<<"a","q","u","a","f","i","n","a">>,
      <<"a","q","u","a","f","i","n","a">>>>,
    <<<<"d","a","s","a","n","i">>,
      <<"d","a","s","a","n","i">>>> >>

STOP_WORDS == {
    <<"t","h","e">>,
    <<"a","n","d">>,
    <<"w","i","t","h">>,
    <<"r","e","g","u","l","a","r">>,
    <<"c","l","a","s","s","i","c">>,
    <<"b","o","t","t","l","e">>,
    <<"c","a","n">>,
    <<"d","r","i","n","k">>,
    <<"b","a","r">>,
    <<"c","h","i","p","s">>,
    <<"o","r","i","g","i","n","a","l">> }

UNIT_TOKENS == {
    <<"o","z">>,
    <<"o","u","n","c","e">>,
    <<"o","u","n","c","e","s">>,
    <<"m","l">>,
    <<"g">>,
    <<"l","b">>,
    <<"l","b","s">> }

DEFAULT_OPTIONS == [autoAcceptThreshold |-> R(82, 100), reviewThreshold |-> R(6, 10)]

HasSynonym(key) == \E i \in 1..Len(BRAND_SYNONYMS) : BRAND_SYNONYMS[i][1] = key
Synonym(key) == BRAND_SYNONYMS[CHOOSE i \in 1..Len(BRAND_SYNONYMS) : BRAND_SYNONYMS[i][1] = key][2]

(***************************************************************************)
(* Tokenisation.                                                           *)
(***************************************************************************)
\* String.prototype.split(" "): the pieces of s between single spaces
RECURSIVE Split(_, _, _)
Split(s, i, cur) ==
    IF i > Len(s) THEN <<cur>>
    ELSE IF s[i] = " " THEN <<cur>> \o Split(s, i + 1, <<>>)
    ELSE Split(s, i + 1, Append(cur, s[i]))

\* .filter((token) => Boolean(token)), keeping the order
RECURSIVE DropEmpty(_)
DropEmpty(seq) ==
    IF seq = <<>> THEN <<>>
    ELSE IF Head(seq) # <<>> THEN <<Head(seq)>> \o DropEmpty(Tail(seq))
    ELSE DropEmpty(Tail(seq))

\* .filter((token) => token && !STOP_WORDS.has(token)), keeping the order
RECURSIVE DropStopWords(_)
DropStopWords(seq) ==
    IF seq = <<>> THEN <<>>
    ELSE IF Head(seq) # <<>> /\ Head(seq) \notin STOP_WORDS
         THEN <<Head(seq)>> \o DropStopWords(Tail(seq))
    ELSE DropStopWords(Tail(seq))

AllDigits(t) == t # <<>> /\ \A i \in 1..Len(t) : t[i] \in Digits

\* /^\d+(?:\.\d+)?$/
IsNumericToken(t) ==
    \/ AllDigits(t)
    \/ \E k \in 2..(Len(t) - 1) :
          /\ t[k] = "."
          /\ AllDigits(SubSeq(t, 1, k - 1))
          /\ AllDigits(SubSeq(t, k + 1, Len(t)))

\* the loop that glues a number to the unit token that follows it
RECURSIVE MergeUnits(_, _)
MergeUnits(rawTokens, i) ==
    IF i > Len(rawTokens) THEN <<>>
    ELSE IF /\ IsNumericToken(rawTokens[i])
            /\ i + 1 <= Len(rawTokens)
            /\ rawTokens[i + 1] \in UNIT_TOKENS
         THEN <<rawTokens[i] \o rawTokens[i + 1]>> \o MergeUnits(rawTokens, i + 2)
         ELSE <<rawTokens[i]>> \o MergeUnits(rawTokens, i + 1)

\* canonicalizeToken without the look-up of BRAND_SYNONYMS
canonicalizeTokenVerbatim(token) == token

canonicalizeToken(token) == IF HasSynonym(token) THEN Synonym(token) ELSE token

tokenize(value) ==
    IF value = <<>> THEN <<>>
    ELSE LET pieces == Split(value, 1, <<>>)
             trimmed == [i \in 1..Len(pieces) |-> trim(pieces[i])]
             rawTokens == DropEmpty(trimmed)
             merged == MergeUnits(rawTokens, 1)
             kept == DropStopWords(merged)
         IN  [i \in 1..Len(kept) |-> canonicalizeToken(kept[i])]

canonicalizeBrand(brand) ==
    IF ~TruthyStr(brand) THEN Absent
    ELSE LET lower == trim(toLowerCase(Get(brand)))
         IN  IF HasSynonym(lower) THEN Some(Synonym(lower)) ELSE Some(lower)

canonicalizeCategory(value) ==
    IF ~TruthyStr(value) THEN Absent
    ELSE LET normalized == toLowerCase(Get(value))
         IN  IF Includes(normalized, <<"s","o","d","a">>) \/ Includes(normalized, <<"c","o","l","a">>)
                THEN Some(<<"b","e","v","e","r","a","g","e"," ","s","o","d","a">>)
             ELSE IF Includes(normalized, <<"w","a","t","e","r">>)
                THEN Some(<<"b","e","v","e","r","a","g","e"," ","w","a","t","e","r">>)
             ELSE IF Includes(normalized, <<"e","n","e","r","g","y">>)
                THEN Some(<<"b","e","v","e","r","a","g","e"," ","e","n","e","r","g","y">>)
             ELSE IF Includes(normalized, <<"c","h","i","p","s">>)
                THEN Some(<<"s","n","a","c","k"," ","c","h","i","p","s">>)
             ELSE IF Includes(normalized, <<"c","a","n","d","y">>)
                     \/ Includes(normalized, <<"c","h","o","c","o","l","a","t","e">>)
                THEN Some(<<"s","n","a","c","k"," ","c","a","n","d","y">>)
             ELSE Some(normalized)

\* isLikelyUPC without the bounds on the length: /^\d+$/
isLikelyUPCAnyLength(value) ==
    /\ TruthyStr(value)
    /\ AllDigits(Get(value))

\* /^\d{8,14}$/
isLikelyUPC(value) ==
    /\ TruthyStr(value)
    /\ Len(Get(value)) >= 8
    /\ Len(Get(value)) <= 14
    /\ AllDigits(Get(value))

(***************************************************************************)
(* Feature scores.  A NormalizedProduct is a record with the fields        *)
(* sourceId, rawName, normalizedName, tokens, brand, sizeOz, price,        *)
(* category, isDiet, scancode; brand, sizeOz, price, category and scancode *)
(* are optional.                                                           *)
(***************************************************************************)
scoreUPC(a, b) ==
    IF ~TruthyStr(a.scancode) \/ ~TruthyStr(b.scancode) THEN Zero
    ELSE IF a.scancode = b.scancode THEN One ELSE Zero

scoreNameTokens(tokensA, tokensB) ==
    IF tokensA = <<>> \/ tokensB = <<>> THEN Zero
    ELSE LET setB == Range(tokensB)
             intersectionSize == Cardinality({i \in 1..Len(tokensA) : tokensA[i] \in setB})
             unionSize == Cardinality(Range(tokensA) \cup Range(tokensB))
         IN  IF unionSize = 0 THEN Zero ELSE R(intersectionSize, unionSize)

buildBigrams(value) ==
    LET sanitized == trim(CollapseSpace(value, 1))
    IN  IF Len(sanitized) < 2 THEN <<>>
        ELSE [i \in 1..(Len(sanitized) - 1) |-> <<sanitized[i], sanitized[i + 1]>>]

\* countOccurrences(values).get(value) ?? 0
Occurrences(values, value) == Cardinality({i \in 1..Len(values) : values[i] = value})

Min(m, n) == IF m < n THEN m ELSE n

RECURSIVE SumMinCounts(_, _, _)
SumMinCounts(grams, gramsA, gramsB) ==
    IF grams = {} THEN 0
    ELSE LET gram == CHOOSE g \in grams : TRUE
         IN  Min(Occurrences(gramsA, gram), Occurrences(gramsB, gram))
             + SumMinCounts(grams \ {gram}, gramsA, gramsB)

scoreCharacterBigram(a, b) ==
    LET gramsA == buildBigrams(a)
        gramsB == buildBigrams(b)
    IN  IF gramsA = <<>> \/ gramsB = <<>> THEN Zero
        ELSE R(2 * SumMinCounts(Range(gramsA), gramsA, gramsB), Len(gramsA) + Len(gramsB))

scoreNameSimilarity(a, b) ==
    MathMax(scoreNameTokens(a.tokens, b.tokens),
            scoreCharacterBigram(a.normalizedName, b.normalizedName))

scoreBrand(brandA, brandB) ==
    IF ~TruthyStr(brandA) /\ ~TruthyStr(brandB) THEN Zero
    ELSE IF ~TruthyStr(brandA) \/ ~TruthyStr(brandB) THEN R(2, 10)
    ELSE IF brandA = brandB THEN One
    ELSE IF canonicalizeBrand(brandA) = canonicalizeBrand(brandB) THEN R(7, 10)
    ELSE Zero

scoreSize(sizeA, sizeB) ==
    IF ~TruthyNum(sizeA) \/ ~TruthyNum(sizeB) THEN Zero
    ELSE LET diff == MathAbs(Sub(Get(sizeA), Get(sizeB)))
             max == MathMax(Get(sizeA), Get(sizeB))
             normalizedDiff == Div(diff, max)
             score == MathMax(Zero, Sub(One, Mul(normalizedDiff, R(15, 10))))
         IN  clamp(score, Zero, One)

\* value.split(" ")[0]
FirstWord(value) == Split(value, 1, <<>>)[1]

scoreCategory(categoryA, categoryB) ==
    IF ~TruthyStr(categoryA) /\ ~TruthyStr(categoryB) THEN Zero
    ELSE IF ~TruthyStr(categoryA) \/ ~TruthyStr(categoryB) THEN R(2, 10)
    ELSE LET normalizedA == canonicalizeCategory(categoryA)
             normalizedB == canonicalizeCategory(categoryB)
         IN  IF normalizedA = normalizedB THEN One
             ELSE IF /\ TruthyStr(normalizedA)
                     /\ TruthyStr(normalizedB)
                     /\ FirstWord(Get(normalizedA)) = FirstWord(Get(normalizedB))
                  THEN R(6, 10)
             ELSE Zero

scoreNumericSimilarity(a, b, tolerance) ==
    IF a = Absent \/ b = Absent THEN Zero
    ELSE IF Get(a) = Zero /\ Get(b) = Zero THEN One
    ELSE IF Get(a) = Zero \/ Get(b) = Zero THEN Zero
    ELSE LET diff == MathAbs(Sub(Get(a), Get(b)))
             avg == Div(Add(Get(a), Get(b)), Num(2))
         IN  IF avg = Zero THEN Zero
             ELSE IF Le(Div(diff, avg), tolerance)
                  THEN Sub(One, Div(Div(diff, avg), tolerance))
             ELSE Zero

scoreDietPenalty(aIsDiet, bIsDiet) == IF aIsDiet = bIsDiet THEN Zero ELSE One

computeFeatureScores(a, b) ==
    [upc |-> scoreUPC(a, b),
     name |-> scoreNameSimilarity(a, b),
     brand |-> scoreBrand(a.brand, b.brand),
     size |-> scoreSize(a.sizeOz, b.sizeOz),
     category |-> scoreCategory(a.category, b.category),
     price |-> scoreNumericSimilarity(a.price, b.price, R(25, 100)),
     dietPenalty |-> scoreDietPenalty(a.isDiet, b.isDiet)]

\* Components with brand and category available when either side has one
ComponentsEitherSide(scores, productA, productB) == <<
    [score |-> scores.upc, weight |-> R(25, 100),
     available |-> isLikelyUPC(productA.scancode) /\ isLikelyUPC(productB.scancode)],
    [score |-> scores.name, weight |-> R(25, 100), available |-> TRUE],
    [score |-> scores.brand, weight |-> R(2, 10),
     available |-> TruthyStr(productA.brand) \/ TruthyStr(productB.brand)],
    [score |-> scores.size, weight |-> R(2, 10),
     available |-> TruthyNum(productA.sizeOz) /\ TruthyNum(productB.sizeOz)],
    [score |-> scores.category, weight |-> R(5, 100),
     available |-> TruthyStr(productA.category) \/ TruthyStr(productB.category)],
    [score |-> scores.price, weight |-> R(5, 100),
     available |-> productA.price # Absent /\ productB.price # Absent] >>

\* components of computeConfidence: score, weight, available
Components(scores, productA, productB) == <<
    [score |-> scores.upc, weight |-> R(25, 100),
     available |-> isLikelyUPC(productA.scancode) /\ isLikelyUPC(productB.scancode)],
    [score |-> scores.name, weight |-> R(25, 100), available |-> TRUE],
    [score |-> scores.brand, weight |-> R(2, 10),
     available |-> TruthyStr(productA.brand) /\ TruthyStr(productB.brand)],
    [score |-> scores.size, weight |-> R(2, 10),
     available |-> TruthyNum(productA.sizeOz) /\ TruthyNum(productB.sizeOz)],
    [score |-> scores.category, weight |-> R(5, 100),
     available |-> TruthyStr(productA.category) /\ TruthyStr(productB.category)],
    [score |-> scores.price, weight |-> R(5, 100),
     available |-> productA.price # Absent /\ productB.price # Absent] >>

\* components.reduce(..., 0) over the available weights
RECURSIVE WeightSum(_, _)
WeightSum(components, i) ==
    IF i > Len(components) THEN Zero
    ELSE IF components[i].available
         THEN Add(components[i].weight, WeightSum(components, i + 1))
    ELSE WeightSum(components, i + 1)

\* components.reduce(..., 0) over score * weight of the available components
RECURSIVE WeightedScore(_, _)
WeightedScore(components, i) ==
    IF i > Len(components) THEN Zero
    ELSE IF components[i].available
         THEN Add(Mul(components[i].score, components[i].weight),
                  WeightedScore(components, i + 1))
    ELSE WeightedScore(components, i + 1)

computeConfidenceUnclamped(scores, productA, productB) ==
    LET components == Components(scores, productA, productB)
        weightSum == WeightSum(components, 1)
    IN  IF weightSum = Zero THEN Zero
        ELSE Sub(Div(WeightedScore(components, 1), weightSum),
                 Mul(scores.dietPenalty, R(5, 100)))

computeConfidence(scores, productA, productB) ==
    LET components == Components(scores, productA, productB)
        weightSum == WeightSum(components, 1)
    IN  IF weightSum = Zero THEN Zero
        ELSE LET weightedScore == WeightedScore(components, 1)
                 normalizedScore == Div(weightedScore, weightSum)
                 penalty == Mul(scores.dietPenalty, R(5, 100))
             IN  clamp(Sub(normalizedScore, penalty), Zero, One)

mapScores(scores) ==
    [upc |-> round(scores.upc),
     name |-> round(scores.name),
     brand |-> round(scores.brand),
     size |-> round(scores.size),
     category |-> round(scores.category),
     price |-> round(scores.price),
     dietPenalty |-> round(scores.dietPenalty)]

(***************************************************************************)
(* Normalisation of a raw record.                                          *)
(***************************************************************************)
DigitValue(c) == CHOOSE v \in 0..9 : <<"0","1","2","3","4","5","6","7","8","9">>[v + 1] = c

RECURSIVE Pow10(_)
Pow10(k) == IF k = 0 THEN 1 ELSE 10 * Pow10(k - 1)

\* the value of a string of digits (0 for the empty string)
RECURSIVE DigitsValue(_)
DigitsValue(ds) ==
    IF ds = <<>> THEN 0
    ELSE 10 * DigitsValue(SubSeq(ds, 1, Len(ds) - 1)) + DigitValue(ds[Len(ds)])

\* the first position >= i of s that is not a digit (\d+ and \d* are greedy)
RECURSIVE SkipDigits(_, _)
SkipDigits(s, i) ==
    IF i <= Len(s) /\ s[i] \in Digits THEN SkipDigits(s, i + 1) ELSE i

\* the position after the longest /\d+(?:\.\d+)?/ at i, or 0
NumberEnd(s, i) ==
    LET intEnd == SkipDigits(s, i)
    IN  IF intEnd = i THEN 0
        ELSE IF /\ intEnd <= Len(s)
                /\ s[intEnd] = "."
                /\ SkipDigits(s, intEnd + 1) > intEnd + 1
             THEN SkipDigits(s, intEnd + 1)
        ELSE intEnd

\* the number written integer part "." fraction part
Decimal(intPart, fracPart) ==
    Add(Num(DigitsValue(intPart)), R(DigitsValue(fracPart), Pow10(Len(fracPart))))

\* parseFloat of a string matched by /\d+(?:\.\d+)?/
ParseUnsigned(t) ==
    LET intEnd == SkipDigits(t, 1)
    IN  Decimal(SubSeq(t, 1, intEnd - 1), SubSeq(t, intEnd + 1, Len(t)))

\* Number.parseFloat of a string of digits, dots and minus signs: the value of
\* its longest prefix that reads as a number, Absent for NaN
parseFloat(t) ==
    LET neg == t # <<>> /\ t[1] = "-"
        start == IF neg THEN 2 ELSE 1
        intEnd == SkipDigits(t, start)
        hasDot == intEnd <= Len(t) /\ t[intEnd] = "."
        fracEnd == IF hasDot THEN SkipDigits(t, intEnd + 1) ELSE intEnd
        intPart == SubSeq(t, start, intEnd - 1)
        fracPart == IF hasDot THEN SubSeq(t, intEnd + 1, fracEnd - 1) ELSE <<>>
        magnitude == Decimal(intPart, fracPart)
    IN  IF intPart = <<>> /\ fracPart = <<>> THEN Absent
        ELSE Some(IF neg THEN Sub(Zero, magnitude) ELSE magnitude)

\* value.replace(/[^0-9.\-]/g, "")
RECURSIVE Sanitize(_)
Sanitize(s) ==
    IF s = <<>> THEN <<>>
    ELSE IF Head(s) \in Digits \cup {".", "-"} THEN <<Head(s)>> \o Sanitize(Tail(s))
    ELSE Sanitize(Tail(s))

parseNumber(value) ==
    IF ~TruthyStr(value) THEN Absent ELSE parseFloat(Sanitize(Get(value)))

\* the unit alternation (fl\s*oz|oz|ounce|oz\.|ml|g) at i, case-insensitive:
\* <<position after the unit, the unit in lower case>>, or <<0, <<>>>>
MatchUnit(s, i) ==
    LET l == toLowerCase(s)
        flEnd == SkipSpace(l, i + 2)
    IN  IF StartsAt(l, <<"f","l">>, i) /\ StartsAt(l, OZ, flEnd)
            THEN <<flEnd + 2, SubSeq(l, i, flEnd + 1)>>
        ELSE IF StartsAt(l, OZ, i) THEN <<i + 2, OZ>>
        ELSE IF StartsAt(l, <<"o","u","n","c","e">>, i) THEN <<i + 5, <<"o","u","n","c","e">>>>
        ELSE IF StartsAt(l, <<"m","l">>, i) THEN <<i + 2, <<"m","l">>>>
        ELSE IF StartsAt(l, <<"g">>, i) THEN <<i + 1, <<"g">>>>
        ELSE <<0, <<>>>>

\* rawName.match(sizeRegex): <<start, end of the number, end of the match>> of
\* the leftmost match, searched from position i, or <<0, 0, 0>>
RECURSIVE MatchSize(_, _)
MatchSize(s, i) ==
    IF i > Len(s) THEN <<0, 0, 0>>
    ELSE LET numEnd == NumberEnd(s, i)
             unit == IF numEnd = 0 THEN <<0, <<>>>> ELSE MatchUnit(s, SkipSpace(s, numEnd))
         IN  IF numEnd # 0 /\ unit[1] # 0 THEN <<i, numEnd, unit[1]>>
             ELSE MatchSize(s, i + 1)

\* parseSize(rawName).sizeOz, Absent when the name carries no size
parseSize(rawName) ==
    LET m == MatchSize(rawName, 1)
    IN  IF m[1] = 0 THEN Absent
        ELSE LET value == ParseUnsigned(SubSeq(rawName, m[1], m[2] - 1))
                 unit == MatchUnit(rawName, SkipSpace(rawName, m[2]))[2]
             IN  IF Includes(unit, <<"m","l">>) THEN Some(Mul(value, R(33814, 1000000)))
                 ELSE IF Includes(unit, <<"g">>) THEN Some(Div(value, R(283495, 10000)))
                 ELSE Some(value)

\* the keys of BRAND_SYNONYMS, longest first; among keys of one length the
\* order of the table (Array.prototype.sort is stable)
RECURSIVE LongestKeyIn(_, _)
LongestKeyIn(normalized, len) ==
    IF len = 0 THEN 0
    ELSE IF \E i \in 1..Len(BRAND_SYNONYMS) :
               Len(BRAND_SYNONYMS[i][1]) = len /\ Includes(normalized, BRAND_SYNONYMS[i][1])
         THEN CHOOSE i \in 1..Len(BRAND_SYNONYMS) :
                  /\ Len(BRAND_SYNONYMS[i][1]) = len
                  /\ Includes(normalized, BRAND_SYNONYMS[i][1])
                  /\ \A j \in 1..(i - 1) :
                        ~(Len(BRAND_SYNONYMS[j][1]) = len /\ Includes(normalized, BRAND_SYNONYMS[j][1]))
    ELSE LongestKeyIn(normalized, len - 1)

\* normalized.split(/[\s,]+/).filter(Boolean)
RECURSIVE SplitWords(_, _, _)
SplitWords(s, i, cur) ==
    IF i > Len(s) THEN IF cur = <<>> THEN <<>> ELSE <<cur>>
    ELSE IF s[i] \in WhiteSpace \cup {","}
         THEN (IF cur = <<>> THEN <<>> ELSE <<cur>>) \o SplitWords(s, i + 1, <<>>)
    ELSE SplitWords(s, i + 1, Append(cur, s[i]))

extractBrand(rawName) ==
    LET normalized == toLowerCase(rawName)
        key == LongestKeyIn(normalized, Len(normalized))
        tokens == SplitWords(normalized, 1, <<>>)
    IN  IF key # 0 THEN Some(BRAND_SYNONYMS[key][2])
        ELSE IF tokens = <<>> THEN Absent
        ELSE canonicalizeBrand(Some(tokens[1]))

DIET_KEYWORDS == <<
    <<"d","i","e","t">>,
    <<"z","e","r","o">>,
    <<"s","u","g","a","r","-","f","r","e","e">>,
    <<"s","u","g","a","r","f","r","e","e">>,
    <<"l","i","t","e">> >>

detectDiet(rawName) ==
    \E i \in 1..Len(DIET_KEYWORDS) : Includes(toLowerCase(rawName), DIET_KEYWORDS[i])

\* x || y on optional strings
OrElse(x, y) == IF TruthyStr(x) THEN x ELSE y

\* A raw record of source 365 is [PRDNAME, SCANCODE, CATEGORY2, CATEGORY1, PRICE],
\* one of source haha [product_name, product_no, id, price_unit]; csv-parse
\* has trimmed every field ("trim: true"), a missing column is Absent.
normalize365Record(row) ==
    LET rawName == IF row.PRDNAME = Absent THEN <<>> ELSE trim(Get(row.PRDNAME))
    IN  [source |-> "365",
         sourceId |-> Get(OrElse(OrElse(row.SCANCODE, row.PRDNAME), Some(<<>>))),
         rawName |-> rawName,
         normalizedName |-> normalizeName(rawName),
         tokens |-> tokenize(normalizeName(rawName)),
         brand |-> canonicalizeBrand(extractBrand(rawName)),
         sizeOz |-> parseSize(rawName),
         price |-> parseNumber(row.PRICE),
         category |-> OrElse(OrElse(row.CATEGORY2, row.CATEGORY1), Absent),
         isDiet |-> detectDiet(rawName),
         scancode |-> OrElse(row.SCANCODE, Absent)]

normalizeHahaRecord(row) ==
    LET rawName == IF row.product_name = Absent THEN <<>> ELSE trim(Get(row.product_name))
    IN  [source |-> "haha",
         sourceId |-> Get(OrElse(OrElse(row.product_no, row.id), Some(rawName))),
         rawName |-> rawName,
         normalizedName |-> normalizeName(rawName),
         tokens |-> tokenize(normalizeName(rawName)),
         brand |-> canonicalizeBrand(extractBrand(rawName)),
         sizeOz |-> parseSize(rawName),
         price |-> parseNumber(row.price_unit),
         category |-> Absent,
         isDiet |-> detectDiet(rawName),
         scancode |-> OrElse(row.product_no, Absent)]

summarizeProduct(product, pos) ==
    [source |-> product.source,
     sourceId |-> product.sourceId,
     name |-> product.rawName,
     brand |-> product.brand,
     sizeOz |-> product.sizeOz,
     price |-> product.price,
     category |-> product.category,
     scancode |-> product.scancode,
     pos |-> pos]

(***************************************************************************)
(* The raw records the runs draw their inputs from.                        *)
(***************************************************************************)
Rows365 == <<
    [PRDNAME |-> Some(<<"C","o","c","a"," ","C","o","l","a"," ","2","0","o","z"," ","C","a","n">>),
     SCANCODE |-> Some(<<"0","4","9","0","0","0","0","0","0","4","4","3">>), CATEGORY2 |-> Absent,
     CATEGORY1 |-> Some(<<"S","o","d","a","s">>), PRICE |-> Some(<<"3",".","1","0">>)],
    [PRDNAME |-> Some(<<"C","o","k","e"," ","C","o","c","a","-","C","o","l","a"," ","1","2","o","z">>),
     SCANCODE |-> Absent, CATEGORY2 |-> Absent,
     CATEGORY1 |-> Some(<<"S","o","d","a","s">>), PRICE |-> Some(<<"1",".","7","5">>)],
    [PRDNAME |-> Some(<<"D","i","e","t"," ","C","o","k","e"," ","1","2","o","z"," ","C","a","n">>),
     SCANCODE |-> Some(<<"0","4","9","0","0","0","0","0","0","4","5","0">>), CATEGORY2 |-> Absent,
     CATEGORY1 |-> Absent, PRICE |-> Some(<<"1",".","7","5">>)] >>

RowsHaha == <<
    [product_name |-> Some(<<"C","o","k","e"," ","2","0"," ","o","z">>),
     product_no |-> Some(<<"P","R","D","0","0","1">>), id |-> Absent, price_unit |-> Some(<<"2",".","4","9">>)],
    [product_name |-> Some(<<"C","o","c","a","-","C","o","l","a"," ","1","2","o","z">>),
     product_no |-> Some(<<"H","2">>), id |-> Absent, price_unit |-> Some(<<"1",".","8","0">>)],
    [product_name |-> Some(<<>>),
     product_no |-> Some(<<"H","2">>), id |-> Absent, price_unit |-> Absent] >>

CatalogA == {normalize365Record(Rows365[i]) : i \in 1..Len(Rows365)}
CatalogB == {normalizeHahaRecord(RowsHaha[i]) : i \in 1..Len(RowsHaha)}

\* records that carry a name only
NameOnly365(name) ==
    [PRDNAME |-> Some(name), SCANCODE |-> Absent, CATEGORY2 |-> Absent,
     CATEGORY1 |-> Absent, PRICE |-> Absent]
NameOnlyHaha(name) ==
    [product_name |-> Some(name), product_no |-> Absent, id |-> Absent, price_unit |-> Absent]

NameCocaCola20ozCan == <<"C","o","c","a"," ","C","o","l","a"," ","2","0","o","z"," ","C","a","n">>
NameCoke20oz == <<"C","o","k","e"," ","2","0"," ","o","z">>
NameCola0oz == <<"C","o","l","a"," ","0","o","z">>

\* the scan codes the pairs are scored with: none, two UPC-like codes, digits
\* too few for a UPC, and two source-internal ids
ScanCodes == {Absent,
              Some(<<"P","R","D","0","0","1">>),
              Some(<<"0","4","9","0","0","0","0","0","0","4","4","3">>),
              Some(<<"0","4","9","0","0","0","0","0","0","4","5","0">>),
              Some(<<"1","2","3","4","5","6","7">>),
              Some(<<"H","2">>)}

\* the records the scored pairs are drawn from: the records of the runs and
\* the name-only records, each with each of the scan codes (so the products
\* of the runs are among them)
ScoreRows365 ==
    {[r EXCEPT !.SCANCODE = code] :
        r \in Range(Rows365) \cup {NameOnly365(NameCocaCola20ozCan), NameOnly365(NameCola0oz)},
        code \in ScanCodes}
ScoreRowsHaha ==
    {[r EXCEPT !.product_no = code] :
        r \in Range(RowsHaha) \cup {NameOnlyHaha(NameCoke20oz), NameOnlyHaha(NameCola0oz)},
        code \in ScanCodes}
ScoreCatalogA == {normalize365Record(r) : r \in ScoreRows365}
ScoreCatalogB == {normalizeHahaRecord(r) : r \in ScoreRowsHaha}

\* the sequences over S of length at most n
SeqsUpTo(S, n) == UNION {[1..k -> S] : k \in 0..n}

\* the values --auto and --review take in the runs; Absent leaves the default
Thresholds == {Absent, Some(R(1, 2)), Some(R(9, 10))}

\* computeFeatureScores and computeConfidence are pure: their values on the
\* products of the runs and of the scored pairs, computed once
Products == ScoreCatalogA \cup ScoreCatalogB
ScoreTable(products) ==
    [a \in products |-> [b \in products |-> computeFeatureScores(a, b)]]
ConfidenceTable(products, table) ==
    [a \in products |-> [b \in products |-> computeConfidence(table[a][b], a, b)]]
PairScores == ScoreTable(Products)
PairConfidence == ConfidenceTable(Products, PairScores)

(***************************************************************************)
(* matchProducts.                                                          *)
(***************************************************************************)
\* { ...options, ...DEFAULT_OPTIONS }: the defaults win
resolveOptionsDefaultsLast(opts) == DEFAULT_OPTIONS

\* { ...DEFAULT_OPTIONS, ...options }
resolveOptions(opts) ==
    [autoAcceptThreshold |->
        IF opts.autoAcceptThreshold = Absent THEN DEFAULT_OPTIONS.autoAcceptThreshold
        ELSE Get(opts.autoAcceptThreshold),
     reviewThreshold |->
        IF opts.reviewThreshold = Absent THEN DEFAULT_OPTIONS.reviewThreshold
        ELSE Get(opts.reviewThreshold)]

\* the test of line 175
InvalidOptions(resolved) == Gt(resolved.reviewThreshold, resolved.autoAcceptThreshold)

\* KeepBest without the comparison with bestMatch.confidence: the last
\* candidate above the floor wins
KeepLast(bestMatch, j, scores, confidence, resolved) ==
    IF Lt(confidence, Mul(resolved.reviewThreshold, R(65, 100))) THEN bestMatch
    ELSE Some([pos |-> j, confidence |-> confidence, scores |-> scores])

\* KeepBest with the floor of the skip at autoAcceptThreshold
KeepBestFloorAtAuto(bestMatch, j, scores, confidence, resolved) ==
    IF Lt(confidence, resolved.autoAcceptThreshold) THEN bestMatch
    ELSE IF bestMatch = Absent \/ Gt(confidence, Get(bestMatch).confidence)
         THEN Some([pos |-> j, confidence |-> confidence, scores |-> scores])
    ELSE bestMatch

\* KeepBest with >= for >: the last of the candidates that tie wins
KeepBestLastTie(bestMatch, j, scores, confidence, resolved) ==
    IF Lt(confidence, Mul(resolved.reviewThreshold, R(65, 100))) THEN bestMatch
    ELSE IF bestMatch = Absent \/ Ge(confidence, Get(bestMatch).confidence)
         THEN Some([pos |-> j, confidence |-> confidence, scores |-> scores])
    ELSE bestMatch

\* the body of the inner loop, lines 198-210, for the candidate at position j
\* of productsB with its scores and confidence: bestMatch is Absent (null) or
\* Some([pos, confidence, scores]), pos the position of the product in B
KeepBest(bestMatch, j, scores, confidence, resolved) ==
    IF Lt(confidence, Mul(resolved.reviewThreshold, R(65, 100))) THEN bestMatch
    ELSE IF bestMatch = Absent \/ Gt(confidence, Get(bestMatch).confidence)
         THEN Some([pos |-> j, confidence |-> confidence, scores |-> scores])
    ELSE bestMatch

\* the inner loop over productsB from position j on
RECURSIVE ScanB(_, _, _, _, _)
ScanB(productA, B, j, bestMatch, resolved) ==
    IF j > Len(B) THEN bestMatch
    ELSE ScanB(productA, B, j + 1,
               KeepBest(bestMatch, j, PairScores[productA][B[j]],
                        PairConfidence[productA][B[j]], resolved),
               resolved)

\* RecordOutcome with the product left unmatched below autoAcceptThreshold
RecordOutcomeAutoOnly(acc, A, B, i, resolved, bestMatch) ==
    IF bestMatch = Absent \/ Lt(Get(bestMatch).confidence, resolved.autoAcceptThreshold)
    THEN [acc EXCEPT !.unmatchedA = Append(@, summarizeProduct(A[i], i))]
    ELSE [acc EXCEPT
            !.matches = Append(@,
                [productA |-> summarizeProduct(A[i], i),
                 productB |-> summarizeProduct(B[Get(bestMatch).pos], Get(bestMatch).pos),
                 confidence |-> round(Get(bestMatch).confidence),
                 decision |-> "auto",
                 featureScores |-> mapScores(Get(bestMatch).scores)]),
            !.matchedBIds = @ \cup {B[Get(bestMatch).pos].sourceId}]

\* RecordOutcome claiming the sourceId of productA instead of the one of the match
RecordOutcomeClaimsA(acc, A, B, i, resolved, bestMatch) ==
    IF bestMatch = Absent \/ Lt(Get(bestMatch).confidence, resolved.reviewThreshold)
    THEN [acc EXCEPT !.unmatchedA = Append(@, summarizeProduct(A[i], i))]
    ELSE [acc EXCEPT
            !.matches = Append(@,
                [productA |-> summarizeProduct(A[i], i),
                 productB |-> summarizeProduct(B[Get(bestMatch).pos], Get(bestMatch).pos),
                 confidence |-> round(Get(bestMatch).confidence),
                 decision |-> IF Ge(Get(bestMatch).confidence, resolved.autoAcceptThreshold)
                              THEN "auto" ELSE "review",
                 featureScores |-> mapScores(Get(bestMatch).scores)]),
            !.matchedBIds = @ \cup {A[i].sourceId}]

\* RecordOutcome with the comparison of the decision turned round: "auto" at or
\* below autoAcceptThreshold
RecordOutcomeAutoBelow(acc, A, B, i, resolved, bestMatch) ==
    IF bestMatch = Absent \/ Lt(Get(bestMatch).confidence, resolved.reviewThreshold)
    THEN [acc EXCEPT !.unmatchedA = Append(@, summarizeProduct(A[i], i))]
    ELSE [acc EXCEPT
            !.matches = Append(@,
                [productA |-> summarizeProduct(A[i], i),
                 productB |-> summarizeProduct(B[Get(bestMatch).pos], Get(bestMatch).pos),
                 confidence |-> round(Get(bestMatch).confidence),
                 decision |-> IF Le(Get(bestMatch).confidence, resolved.autoAcceptThreshold)
                              THEN "auto" ELSE "review",
                 featureScores |-> mapScores(Get(bestMatch).scores)]),
            !.matchedBIds = @ \cup {B[Get(bestMatch).pos].sourceId}]

\* lines 213-229: the outcome of the product at position i of productsA, given
\* the bestMatch its inner loop left; acc is [matches, unmatchedA, matchedBIds]
RecordOutcome(acc, A, B, i, resolved, bestMatch) ==
    IF bestMatch = Absent \/ Lt(Get(bestMatch).confidence, resolved.reviewThreshold)
    THEN [acc EXCEPT !.unmatchedA = Append(@, summarizeProduct(A[i], i))]
    ELSE [acc EXCEPT
            !.matches = Append(@,
                [productA |-> summarizeProduct(A[i], i),
                 productB |-> summarizeProduct(B[Get(bestMatch).pos], Get(bestMatch).pos),
                 confidence |-> round(Get(bestMatch).confidence),
                 decision |-> IF Ge(Get(bestMatch).confidence, resolved.autoAcceptThreshold)
                              THEN "auto" ELSE "review",
                 featureScores |-> mapScores(Get(bestMatch).scores)]),
            !.matchedBIds = @ \cup {B[Get(bestMatch).pos].sourceId}]

\* one iteration of the loop over productsA, for the product at position i
MatchStep(acc, A, B, i, resolved) ==
    RecordOutcome(acc, A, B, i, resolved, ScanB(A[i], B, 1, Absent, resolved))

\* CollectUnmatchedB without the filter
CollectAllB(B, j, ids) == [k \in 1..(Len(B) - j + 1) |-> summarizeProduct(B[j + k - 1], j + k - 1)]

\* CollectUnmatchedB from the last product of B to the first
RECURSIVE CollectReversedB(_, _, _)
CollectReversedB(B, j, ids) ==
    IF j > Len(B) THEN <<>>
    ELSE IF B[j].sourceId \notin ids
         THEN CollectReversedB(B, j + 1, ids) \o <<summarizeProduct(B[j], j)>>
    ELSE CollectReversedB(B, j + 1, ids)

\* productsB.filter(...).map(summarizeProduct)
RECURSIVE CollectUnmatchedB(_, _, _)
CollectUnmatchedB(B, j, ids) ==
    IF j > Len(B) THEN <<>>
    ELSE IF B[j].sourceId \notin ids
         THEN <<summarizeProduct(B[j], j)>> \o CollectUnmatchedB(B, j + 1, ids)
    ELSE CollectUnmatchedB(B, j + 1, ids)

RECURSIVE MatchLoop(_, _, _, _, _)
MatchLoop(acc, A, B, i, resolved) ==
    IF i > Len(A) THEN acc
    ELSE MatchLoop(MatchStep(acc, A, B, i, resolved), A, B, i + 1, resolved)

\* the MatchResult of matchProducts(A, B, opts) for valid options
matchProducts(A, B, opts) ==
    LET acc == MatchLoop([matches |-> <<>>, unmatchedA |-> <<>>, matchedBIds |-> {}],
                         A, B, 1, resolveOptions(opts))
    IN  [matches |-> acc.matches,
         unmatchedA |-> acc.unmatchedA,
         unmatchedB |-> CollectUnmatchedB(B, 1, acc.matchedBIds)]

(***************************************************************************)
(* The run of the command line: main() of index.ts calling matchProducts.  *)
(***************************************************************************)
Init ==
    /\ pc = "validate"
    /\ productsA \in SeqsUpTo(CatalogA, MaxA)
    /\ productsB \in SeqsUpTo(CatalogB, MaxB)
    /\ options \in [autoAcceptThreshold : Thresholds, reviewThreshold : Thresholds]
    /\ output = Absent
    /\ idxA = 0
    /\ matches = <<>>
    /\ unmatchedA = <<>>
    /\ matchedBIds = {}
    /\ unmatchedB = <<>>
    /\ scored = 0
    /\ stdout = <<>>
    /\ stderr = <<>>
    /\ exitCode = 0
    /\ npc = "idle"
    /\ normInput = <<>>
    /\ normOnce = <<>>
    /\ normTwice = <<>>
    /\ spc = "idle"
    /\ entityA = Absent
    /\ entityB = Absent
    /\ curScores = Absent
    /\ curConfidence = Absent
    /\ curResult = Absent

\* lines 174-177 of matcher.ts with an invalid configuration, and the catch
\* block of index.ts that the Error reaches
ConfigError ==
    /\ pc = "validate"
    /\ InvalidOptions(resolveOptions(options))
    /\ pc' = "failed"
    /\ stderr' = Append(stderr, "Failed to run matcher: reviewThreshold must be <= autoAcceptThreshold")
    /\ exitCode' = 1
    /\ UNCHANGED <<productsA, productsB, options, output, idxA, matches, unmatchedA,
                   matchedBIds, unmatchedB, scored, stdout>>
    /\ UNCHANGED normVars
    /\ UNCHANGED scoreVars

\* lines 174-190 of matcher.ts with a valid configuration
StartMatching ==
    /\ pc = "validate"
    /\ ~InvalidOptions(resolveOptions(options))
    /\ pc' = "loop"
    /\ UNCHANGED <<productsA, productsB, options, output, idxA, matches, unmatchedA,
                   matchedBIds, unmatchedB, scored, stdout, stderr, exitCode>>
    /\ UNCHANGED normVars
    /\ UNCHANGED scoreVars

\* one iteration of the loop of lines 192-230
MatchNext ==
    /\ pc = "loop"
    /\ idxA < Len(productsA)
    /\ LET acc == MatchStep([matches |-> matches, unmatchedA |-> unmatchedA,
                             matchedBIds |-> matchedBIds],
                            productsA, productsB, idxA + 1, resolveOptions(options))
       IN  /\ matches' = acc.matches
           /\ unmatchedA' = acc.unmatchedA
           /\ matchedBIds' = acc.matchedBIds
    /\ idxA' = idxA + 1
    /\ scored' = scored + Len(productsB)
    /\ UNCHANGED <<pc, productsA, productsB, options, output, unmatchedB,
                   stdout, stderr, exitCode>>
    /\ UNCHANGED normVars
    /\ UNCHANGED scoreVars

\* lines 232-236: the loop is over, unmatchedB is computed and the result returned
ReturnResult ==
    /\ pc = "loop"
    /\ idxA = Len(productsA)
    /\ unmatchedB' = CollectUnmatchedB(productsB, 1, matchedBIds)
    /\ pc' = "output"
    /\ UNCHANGED <<productsA, productsB, options, output, idxA, matches, unmatchedA,
                   matchedBIds, scored, stdout, stderr, exitCode>>
    /\ UNCHANGED normVars
    /\ UNCHANGED scoreVars

\* the lines renderTable prints: a line is <<kind, summary or record>>
TableLines(result) ==
    <<<<"Matched Products:">>>>
    \o [k \in 1..Len(result.matches) |-> <<"match", result.matches[k]>>]
    \o (IF result.unmatchedA # <<>>
        THEN <<<<"Unmatched Source A:">>>>
             \o [k \in 1..Len(result.unmatchedA) |-> <<"-", result.unmatchedA[k]>>]
        ELSE <<>>)
    \o (IF result.unmatchedB # <<>>
        THEN <<<<"Unmatched Source B:">>>>
             \o [k \in 1..Len(result.unmatchedB) |-> <<"-", result.unmatchedB[k]>>]
        ELSE <<>>)

\* lines 113-117 of index.ts; mode is the --output of the command line
WriteOutput ==
    /\ pc = "output"
    /\ \E mode \in {"json", "table"} :
          LET result == [matches |-> matches, unmatchedA |-> unmatchedA,
                         unmatchedB |-> unmatchedB]
          IN  /\ output' = Some(mode)
              /\ stdout' = IF mode = "table" THEN TableLines(result)
                            ELSE <<<<"json", result>>>>
    /\ pc' = "done"
    /\ UNCHANGED <<productsA, productsB, options, idxA, matches, unmatchedA,
                   matchedBIds, unmatchedB, scored, stderr, exitCode>>
    /\ UNCHANGED normVars
    /\ UNCHANGED scoreVars

Next ==
    \/ ConfigError
    \/ StartMatching
    \/ MatchNext
    \/ ReturnResult
    \/ WriteOutput

Spec == Init /\ [][Next]_vars

(***************************************************************************)
(* Normalising a name, and normalising the result again.                   *)
(***************************************************************************)
NameAlphabet == {"f", "l", "o", "z", ".", "-", " "}

InitNormalize ==
    /\ pc = "idle"
    /\ productsA = <<>>
    /\ productsB = <<>>
    /\ options = [autoAcceptThreshold |-> Absent, reviewThreshold |-> Absent]
    /\ output = Absent
    /\ idxA = 0
    /\ matches = <<>>
    /\ unmatchedA = <<>>
    /\ matchedBIds = {}
    /\ unmatchedB = <<>>
    /\ scored = 0
    /\ stdout = <<>>
    /\ stderr = <<>>
    /\ exitCode = 0
    /\ npc = "raw"
    /\ normInput \in SeqsUpTo(NameAlphabet, MaxNameLen)
    /\ normOnce = <<>>
    /\ normTwice = <<>>
    /\ spc = "idle"
    /\ entityA = Absent
    /\ entityB = Absent
    /\ curScores = Absent
    /\ curConfidence = Absent
    /\ curResult = Absent

\* const normalized = normalizeName(rawName)
NormalizeFirst ==
    /\ npc = "raw"
    /\ normOnce' = normalizeName(normInput)
    /\ npc' = "once"
    /\ UNCHANGED <<normInput, normTwice>>
    /\ UNCHANGED matcherVars
    /\ UNCHANGED scoreVars

\* the normalised name is normalised again
NormalizeAgain ==
    /\ npc = "once"
    /\ normTwice' = normalizeName(normOnce)
    /\ npc' = "twice"
    /\ UNCHANGED <<normInput, normOnce>>
    /\ UNCHANGED matcherVars
    /\ UNCHANGED scoreVars

NextNormalize ==
    \/ NormalizeFirst
    \/ NormalizeAgain

SpecNormalize == InitNormalize /\ [][NextNormalize]_vars

(***************************************************************************)
(* Scoring one pair of products, and matching it with the default options. *)
(***************************************************************************)
InitScore ==
    /\ pc = "idle"
    /\ productsA = <<>>
    /\ productsB = <<>>
    /\ options = [autoAcceptThreshold |-> Absent, reviewThreshold |-> Absent]
    /\ output = Absent
    /\ idxA = 0
    /\ matches = <<>>
    /\ unmatchedA = <<>>
    /\ matchedBIds = {}
    /\ unmatchedB = <<>>
    /\ scored = 0
    /\ stdout = <<>>
    /\ stderr = <<>>
    /\ exitCode = 0
    /\ npc = "idle"
    /\ normInput = <<>>
    /\ normOnce = <<>>
    /\ normTwice = <<>>
    /\ spc = "drawn"
    /\ entityA \in ScoreCatalogA
    /\ entityB \in ScoreCatalogB
    /\ curScores = Absent
    /\ curConfidence = Absent
    /\ curResult = Absent

\* lines 196-197: computeFeatureScores, then computeConfidence on its result
ScorePair ==
    /\ spc = "drawn"
    /\ curScores' = computeFeatureScores(entityA, entityB)
    /\ curConfidence' = computeConfidence(curScores', entityA, entityB)
    /\ spc' = "scored"
    /\ UNCHANGED <<entityA, entityB, curResult>>
    /\ UNCHANGED matcherVars
    /\ UNCHANGED normVars

\* matchProducts([entityA], [entityB]) without options
MatchPair ==
    /\ spc = "scored"
    /\ curResult' = matchProducts(<<entityA>>, <<entityB>>,
                                  [autoAcceptThreshold |-> Absent, reviewThreshold |-> Absent])
    /\ spc' = "matched"
    /\ UNCHANGED <<entityA, entityB, curScores, curConfidence>>
    /\ UNCHANGED matcherVars
    /\ UNCHANGED normVars

NextScore ==
    \/ ScorePair
    \/ MatchPair

SpecScore == InitScore /\ [][NextScore]_vars

(***************************************************************************)
(* The properties.                                                         *)
(***************************************************************************)
Resolved == resolveOptions(options)
Finished == pc \in {"output", "done"}
InUnit(x) == Le(Zero, x) /\ Le(x, One)
Indexes(seq) == 1..Len(seq)
\* the products the run holds
Entities == Range(productsA) \cup Range(productsB)
\* the pairs the loop has scored so far
ScoredPairs == {<<productsA[i], productsB[j]>> : i \in 1..idxA, j \in Indexes(productsB)}

\* C1: in every MatchRecord the decision agrees with the record's own rounded
\* confidence: "auto" iff confidence >= autoAcceptThreshold, "review" iff
\* reviewThreshold <= confidence < autoAcceptThreshold.
C1_DecisionAgreesWithRecord ==
    \A k \in Indexes(matches) :
        /\ matches[k].decision = "auto"
              <=> Ge(matches[k].confidence, Resolved.autoAcceptThreshold)
        /\ matches[k].decision = "review"
              <=> /\ Ge(matches[k].confidence, Resolved.reviewThreshold)
                  /\ Lt(matches[k].confidence, Resolved.autoAcceptThreshold)

\* C2 as claimed: no two MatchRecords have the same B identifier as productB.
C2_NoSharedB ==
    \A k, l \in Indexes(matches) :
        k # l => matches[k].productB.sourceId # matches[l].productB.sourceId

\* C2 as amended: every A entity is the productA of at most one MatchRecord,
\* every B identifier that is the productB of a MatchRecord is claimed in
\* matchedBIds and, once the result is returned, is in no entry of unmatchedB;
\* several A entities may be matched to the same B entity.
C2_MatchedBClaimed ==
    /\ \A k, l \in Indexes(matches) :
          k # l => matches[k].productA.pos # matches[l].productA.pos
    /\ \A k \in Indexes(matches) :
          /\ matches[k].productB.sourceId \in matchedBIds
          /\ matches[k].productB = summarizeProduct(productsB[matches[k].productB.pos],
                                                    matches[k].productB.pos)
          /\ Finished =>
                \A u \in Indexes(unmatchedB) :
                    unmatchedB[u].sourceId # matches[k].productB.sourceId

C2_Witness ==
    /\ pc = "done"
    /\ \E k, l \in Indexes(matches) :
          /\ k # l
          /\ matches[k].productA.sourceId # matches[l].productA.sourceId
          /\ matches[k].productB.pos = matches[l].productB.pos

\* C3: in the result, the sourceIds of the matched productB entries and the
\* sourceIds of unmatchedB are disjoint and together are the sourceIds of B.
C3_BPartition ==
    Finished =>
        LET matchedIds == {matches[k].productB.sourceId : k \in Indexes(matches)}
            unmatchedIds == {unmatchedB[u].sourceId : u \in Indexes(unmatchedB)}
            allIds == {productsB[j].sourceId : j \in Indexes(productsB)}
        IN  /\ matchedIds \cap unmatchedIds = {}
            /\ matchedIds \cup unmatchedIds = allIds

\* a result with a match, where two B entities share the matched sourceId
C3_Witness ==
    /\ pc = "done"
    /\ matches # <<>>
    /\ \E j, l \in Indexes(productsB) :
          /\ j # l
          /\ productsB[j].sourceId = productsB[l].sourceId
          /\ productsB[j].sourceId = matches[1].productB.sourceId
          /\ productsB[j].rawName # productsB[l].rawName

\* C4: each processed A entity has exactly one outcome: it is in unmatchedA
\* exactly when no B candidate has confidence >= reviewThreshold, and else it
\* is the productA of exactly one MatchRecord; so the two lists together have
\* one entry per processed A entity, and all of A when the result is returned.
C4_OneOutcomePerA ==
    /\ Len(matches) + Len(unmatchedA) = idxA
    /\ Finished => idxA = Len(productsA)
    /\ \A i \in 1..idxA :
          LET inMatches == {k \in Indexes(matches) : matches[k].productA.pos = i}
              inUnmatched == {u \in Indexes(unmatchedA) : unmatchedA[u].pos = i}
              candidate == \E j \in Indexes(productsB) :
                              Ge(PairConfidence[productsA[i]][productsB[j]],
                                 Resolved.reviewThreshold)
          IN  IF candidate
              THEN Cardinality(inMatches) = 1 /\ inUnmatched = {}
              ELSE Cardinality(inUnmatched) = 1 /\ inMatches = {}

C4_Witness ==
    /\ pc = "done"
    /\ Len(matches) = 1
    /\ Len(unmatchedA) = 1
    /\ Len(productsB) = 2

\* C5: when reviewThreshold > autoAcceptThreshold after the caller's options
\* are merged with the defaults 0.82 and 0.6, the run scores no pair, returns
\* no result, writes nothing on standard output, and ends with exit code 1.
C5_InvalidConfigurationFails ==
    LET auto == IF options.autoAcceptThreshold = Absent THEN R(82, 100)
                ELSE Get(options.autoAcceptThreshold)
        review == IF options.reviewThreshold = Absent THEN R(6, 10)
                  ELSE Get(options.reviewThreshold)
    IN  Gt(review, auto) =>
            /\ pc \in {"validate", "failed"}
            /\ scored = 0
            /\ matches = <<>> /\ unmatchedA = <<>> /\ unmatchedB = <<>>
            /\ stdout = <<>>
            /\ pc = "failed" => exitCode = 1 /\ stderr # <<>>

\* the run has failed on a reviewThreshold above the default autoAcceptThreshold
C5_Witness ==
    /\ pc = "failed"
    /\ options.autoAcceptThreshold = Absent
    /\ options.reviewThreshold = Some(R(9, 10))
    /\ productsA # <<>>
    /\ productsB # <<>>

\* C6: the confidence of every pair of entities, and the confidence stored in
\* every MatchRecord, is within [0, 1].
C6_ConfidenceInUnitInterval ==
    /\ \A a \in Entities : \A b \in Entities : InUnit(PairConfidence[a][b])
    /\ \A k \in Indexes(matches) : InUnit(matches[k].confidence)

\* a record whose confidence was clamped: its name score is above 1
C6_Witness ==
    /\ pc = "done"
    /\ \E k \in Indexes(matches) :
          /\ matches[k].confidence = One
          /\ Gt(matches[k].featureScores.name, One)

\* C7: every component of the score vector of every scored pair lies in
\* [0, 1], and the diet penalty is 0 or 1.
C7_ScoresInUnitInterval ==
    \A pair \in ScoredPairs :
        LET scores == PairScores[pair[1]][pair[2]]
        IN  /\ InUnit(scores.upc)
            /\ InUnit(scores.name)
            /\ InUnit(scores.brand)
            /\ InUnit(scores.size)
            /\ InUnit(scores.category)
            /\ InUnit(scores.price)
            /\ scores.dietPenalty \in {Zero, One}

\* C8: every entity of a run, scored against itself, has name score 1, score
\* 1 for each of identifier, brand, size and price that is present, diet
\* penalty 0 and confidence exactly 1.
C8_SelfMatch ==
    pc # "validate" =>
        \A p \in Entities :
            LET scores == PairScores[p][p]
            IN  /\ scores.name = One
                /\ p.scancode # Absent => scores.upc = One
                /\ p.brand # Absent => scores.brand = One
                /\ p.sizeOz # Absent => scores.size = One
                /\ p.price # Absent => scores.price = One
                /\ scores.dietPenalty = Zero
                /\ PairConfidence[p][p] = One

\* C9: normalising a normalised name returns it unchanged.
C9_NormalizeIdempotent == npc = "twice" => normTwice = normOnce

\* C10: with the same inputs and autoAcceptThreshold, a valid configuration
\* with a reviewThreshold at least as high gives at most as many MatchRecords
\* and at least as many unmatchedA entries.
C10_ReviewThresholdMonotone ==
    Finished =>
        \A r2 \in Thresholds :
            LET options2 == [options EXCEPT !.reviewThreshold = r2]
                resolved2 == resolveOptions(options2)
                result2 == matchProducts(productsA, productsB, options2)
            IN  (Le(Resolved.reviewThreshold, resolved2.reviewThreshold)
                    /\ ~InvalidOptions(resolved2))
                => /\ Len(result2.matches) <= Len(matches)
                   /\ Len(result2.unmatchedA) >= Len(unmatchedA)

\* a higher valid reviewThreshold loses a match and keeps another, with the
\* lost pair above the lower skip floor and below the higher one
C10_Witness ==
    /\ pc = "done"
    /\ Len(matches) = 2
    /\ \E r2 \in Thresholds :
          LET options2 == [options EXCEPT !.reviewThreshold = r2]
          IN  /\ ~InvalidOptions(resolveOptions(options2))
              /\ Lt(Resolved.reviewThreshold, resolveOptions(options2).reviewThreshold)
              /\ Len(matchProducts(productsA, productsB, options2).matches) = 1

\* the number of MatchRecords with decision "auto"
AutoCount(records) == Cardinality({k \in Indexes(records) : records[k].decision = "auto"})

\* C11: with the same inputs and reviewThreshold, a valid configuration with
\* an autoAcceptThreshold at least as high gives at most as many MatchRecords
\* with decision "auto".
C11_AutoThresholdMonotone ==
    Finished =>
        \A t2 \in Thresholds :
            LET options2 == [options EXCEPT !.autoAcceptThreshold = t2]
                resolved2 == resolveOptions(options2)
            IN  (Le(Resolved.autoAcceptThreshold, resolved2.autoAcceptThreshold)
                    /\ ~InvalidOptions(resolved2))
                => AutoCount(matchProducts(productsA, productsB, options2).matches)
                      <= AutoCount(matches)

\* a higher autoAcceptThreshold turns one of two "auto" records into "review"
C11_Witness ==
    /\ pc = "done"
    /\ AutoCount(matches) = 2
    /\ \E t2 \in Thresholds :
          LET options2 == [options EXCEPT !.autoAcceptThreshold = t2]
          IN  /\ ~InvalidOptions(resolveOptions(options2))
              /\ Lt(Resolved.autoAcceptThreshold, resolveOptions(options2).autoAcceptThreshold)
              /\ AutoCount(matchProducts(productsA, productsB, options2).matches) = 1
              /\ Len(matchProducts(productsA, productsB, options2).matches) = 2

Scored == spc \in {"scored", "matched"}

\* digits only, of length 8 to 14
UpcLike(code) ==
    /\ code # Absent
    /\ Len(Get(code)) \in 8..14
    /\ \A k \in 1..Len(Get(code)) : Get(code)[k] \in Digits

\* the product without its scan code
WithoutCode(product) == [product EXCEPT !.scancode = Absent]

\* C12: when the scan code of either side is not UPC-like (missing, or not
\* digits only of length 8 to 14), the confidence of the pair is the one of
\* the same pair without scan codes, whether the two codes are equal or not,
\* and the identifier adds nothing to the sum of the weights nor to the
\* weighted sum of the scores.
C12_NonUpcIdentifierIgnored ==
    (Scored /\ ~(UpcLike(entityA.scancode) /\ UpcLike(entityB.scancode))) =>
        LET components == Components(curScores, entityA, entityB)
            a0 == WithoutCode(entityA)
            b0 == WithoutCode(entityB)
        IN  /\ curConfidence = computeConfidence(computeFeatureScores(a0, b0), a0, b0)
            /\ WeightSum(components, 1) = WeightSum(components, 2)
            /\ WeightedScore(components, 1) = WeightedScore(components, 2)

\* a scored pair with the same digits, too few for a UPC, on both sides
C12_Witness ==
    /\ Scored
    /\ entityA.scancode = entityB.scancode
    /\ entityA.scancode # Absent
    /\ ~UpcLike(entityA.scancode)
    /\ curScores.upc = One
    /\ Gt(curConfidence, Zero)
    /\ \A k \in 1..Len(Get(entityA.scancode)) : Get(entityA.scancode)[k] \in Digits

\* C13 as claimed: a pair whose scan codes are both UPC-like and textually
\* identical has a confidence of at least the default autoAcceptThreshold 0.82.
C13_IdenticalUpcOverrides ==
    (Scored /\ UpcLike(entityA.scancode) /\ UpcLike(entityB.scancode)
            /\ entityA.scancode = entityB.scancode)
        => Ge(curConfidence, DEFAULT_OPTIONS.autoAcceptThreshold)

\* the pair of the scenario: the products normalised from the records that
\* carry only the names "Coca Cola 20oz Can" and "Coke 20 oz"
ScenarioPair ==
    /\ entityA = normalize365Record(NameOnly365(NameCocaCola20ozCan))
    /\ entityB = normalizeHahaRecord(NameOnlyHaha(NameCoke20oz))

\* C14: the pair of the scenario has brand score 1, size score 1, name score
\* >= 0.6 and confidence >= 0.82, and matchProducts with the default
\* thresholds returns one MatchRecord, with decision "auto", and no unmatched
\* product.
C14_ScenarioAutoMatch ==
    ScenarioPair =>
        /\ Scored =>
              /\ curScores.brand = One
              /\ curScores.size = One
              /\ Ge(curScores.name, R(6, 10))
              /\ Ge(curConfidence, R(82, 100))
        /\ spc = "matched" =>
              /\ Len(curResult.matches) = 1
              /\ curResult.matches[1].decision = "auto"
              /\ curResult.matches[1].productA.name = NameCocaCola20ozCan
              /\ curResult.matches[1].productB.name = NameCoke20oz
              /\ curResult.unmatchedA = <<>>
              /\ curResult.unmatchedB = <<>>

\* the pair of the scenario, scored (name 2/3, confidence 34/39) and matched
C14_Witness ==
    /\ ScenarioPair
    /\ spc = "matched"
    /\ curScores.name = R(2, 3)
    /\ curConfidence = R(34, 39)
    /\ curResult.matches # <<>>

\* the inner loop without the early skip of lines 198-201
RECURSIVE ScanBNoSkip(_, _, _, _)
ScanBNoSkip(productA, B, j, bestMatch) ==
    IF j > Len(B) THEN bestMatch
    ELSE LET confidence == PairConfidence[productA][B[j]]
         IN  ScanBNoSkip(productA, B, j + 1,
                IF bestMatch = Absent \/ Gt(confidence, Get(bestMatch).confidence)
                THEN Some([pos |-> j, confidence |-> confidence,
                           scores |-> PairScores[productA][B[j]]])
                ELSE bestMatch)

RECURSIVE MatchLoopNoSkip(_, _, _, _, _)
MatchLoopNoSkip(acc, A, B, i, resolved) ==
    IF i > Len(A) THEN acc
    ELSE MatchLoopNoSkip(
            RecordOutcome(acc, A, B, i, resolved, ScanBNoSkip(A[i], B, 1, Absent)),
            A, B, i + 1, resolved)

\* matchProducts without the early skip
matchProductsNoSkip(A, B, opts) ==
    LET acc == MatchLoopNoSkip([matches |-> <<>>, unmatchedA |-> <<>>, matchedBIds |-> {}],
                               A, B, 1, resolveOptions(opts))
    IN  [matches |-> acc.matches,
         unmatchedA |-> acc.unmatchedA,
         unmatchedB |-> CollectUnmatchedB(B, 1, acc.matchedBIds)]

\* the floor of the early skip
SkipFloor == Mul(Resolved.reviewThreshold, R(65, 100))

\* C15: the result the run returns is the result of the same algorithm without
\* the early skip: same records, in the same order, and same unmatched lists.
C15_SkipChangesNothing ==
    Finished =>
        [matches |-> matches, unmatchedA |-> unmatchedA, unmatchedB |-> unmatchedB]
            = matchProductsNoSkip(productsA, productsB, options)

\* a finished run with a match and with an unmatched product of A all of whose
\* candidates were skipped, one of them with a positive confidence
C15_Witness ==
    /\ pc = "done"
    /\ matches # <<>>
    /\ \E u \in Indexes(unmatchedA) :
          /\ \A j \in Indexes(productsB) :
                Lt(PairConfidence[productsA[unmatchedA[u].pos]][productsB[j]], SkipFloor)
          /\ \E j \in Indexes(productsB) :
                Gt(PairConfidence[productsA[unmatchedA[u].pos]][productsB[j]], Zero)

\* C16: the productB of every MatchRecord has the greatest confidence against
\* its productA over all of productsB, and is the earliest of productsB with
\* that confidence.
C16_BestAndEarliest ==
    \A k \in Indexes(matches) :
        LET a == productsA[matches[k].productA.pos]
            best == matches[k].productB.pos
        IN  \A l \in Indexes(productsB) :
                /\ Le(PairConfidence[a][productsB[l]], PairConfidence[a][productsB[best]])
                /\ PairConfidence[a][productsB[l]] = PairConfidence[a][productsB[best]]
                      => best <= l

\* a record whose productB is the first of two products of B that tie at the
\* greatest confidence
C16_Witness ==
    /\ pc = "done"
    /\ \E k \in Indexes(matches) :
          /\ matches[k].productB.pos = 1
          /\ Len(productsB) = 2
          /\ PairConfidence[productsA[matches[k].productA.pos]][productsB[1]]
                = PairConfidence[productsA[matches[k].productA.pos]][productsB[2]]

\* the record without its decision
WithoutDecision(record) == [record EXCEPT !.decision = "any"]

\* positions strictly increasing along the sequence
InInputOrder(positions) ==
    \A k, l \in Indexes(positions) : k < l => positions[k] < positions[l]

\* C19: with the same inputs and reviewThreshold, every valid
\* autoAcceptThreshold gives the same records but for their decisions, and the
\* same unmatchedA and unmatchedB; matches and unmatchedA are in the order of
\* productsA, unmatchedB in the order of productsB.
C19_AutoThresholdOnlyRelabels ==
    Finished =>
        /\ \A t2 \in Thresholds :
              LET options2 == [options EXCEPT !.autoAcceptThreshold = t2]
                  result2 == matchProducts(productsA, productsB, options2)
              IN  ~InvalidOptions(resolveOptions(options2)) =>
                      /\ Len(result2.matches) = Len(matches)
                      /\ \A k \in Indexes(matches) :
                            WithoutDecision(result2.matches[k]) = WithoutDecision(matches[k])
                      /\ result2.unmatchedA = unmatchedA
                      /\ result2.unmatchedB = unmatchedB
        /\ InInputOrder([k \in Indexes(matches) |-> matches[k].productA.pos])
        /\ InInputOrder([k \in Indexes(unmatchedA) |-> unmatchedA[k].pos])
        /\ InInputOrder([k \in Indexes(unmatchedB) |-> unmatchedB[k].pos])

\* a finished run with two records, one of which has another decision under
\* another valid autoAcceptThreshold
C19_Witness ==
    /\ pc = "done"
    /\ Len(matches) = 2
    /\ \E t2 \in Thresholds :
          LET options2 == [options EXCEPT !.autoAcceptThreshold = t2]
          IN  /\ ~InvalidOptions(resolveOptions(options2))
              /\ \E k \in Indexes(matches) :
                    matchProducts(productsA, productsB, options2).matches[k].decision
                        # matches[k].decision

\* x when the attribute is available, else 0
Part(available, x) == IF available THEN x ELSE Zero

\* the confidence as C17 states it: the weighted average over the attributes
\* available, brand, size and category being available when both sides are
\* not absent, less 0.05 x dietPenalty, clamped to [0, 1]
ClaimedConfidence(scores, a, b) ==
    LET upc == UpcLike(a.scancode) /\ UpcLike(b.scancode)
        brand == a.brand # Absent /\ b.brand # Absent
        size == a.sizeOz # Absent /\ b.sizeOz # Absent
        category == a.category # Absent /\ b.category # Absent
        price == a.price # Absent /\ b.price # Absent
        weights == Add(Part(upc, R(25, 100)), Add(R(25, 100), Add(Part(brand, R(20, 100)),
                   Add(Part(size, R(20, 100)), Add(Part(category, R(5, 100)),
                   Part(price, R(5, 100)))))))
        weighted == Add(Part(upc, Mul(scores.upc, R(25, 100))),
                    Add(Mul(scores.name, R(25, 100)),
                    Add(Part(brand, Mul(scores.brand, R(20, 100))),
                    Add(Part(size, Mul(scores.size, R(20, 100))),
                    Add(Part(category, Mul(scores.category, R(5, 100))),
                    Part(price, Mul(scores.price, R(5, 100))))))))
    IN  clamp(Sub(Div(weighted, weights), Mul(scores.dietPenalty, R(5, 100))), Zero, One)

\* C17 as claimed: the confidence of every scored pair is the weighted average
\* over the available attributes, a present size of 0 counting as present.
C17_ConfidenceFormula ==
    Scored => curConfidence = ClaimedConfidence(curScores, entityA, entityB)

\* the scores that take the place of a partial credit
ReplacementScores == {Zero, R(1, 2), One}

\* exactly one of the two optional values is absent
OneSided(x, y) == (x = Absent) # (y = Absent)

C20_ScoringSymmetric ==
    Scored =>
        /\ computeFeatureScores(entityB, entityA) = curScores
        /\ computeConfidence(computeFeatureScores(entityB, entityA), entityB, entityA)
              = curConfidence

====
